---- MODULE Spec2Model ----
(***************************************************************************)
(* URL status checker of "Task 2/Task2-Code.py": a CSV of URLs is read,    *)
(* every URL is validated, the valid ones are fetched concurrently behind  *)
(* an asyncio.Semaphore with a retry loop, and the outcomes are written to *)
(* a CSV file.                                                             *)
(*                                                                         *)
(* Text is modelled as a sequence of one-character strings, so that        *)
(* str.strip() and urllib.parse.urlparse() are computed character by       *)
(* character.  asyncio runs one coroutine at a time: every action below is *)
(* the code that runs between two await points.                            *)
(***************************************************************************)
EXTENDS Integers, Sequences, FiniteSets, TLC

VARIABLES
    csvfile,     \* the rows csv.reader yields for the input file, header first
    stub,        \* the stub server of this run: the answers requests can get
    pc,          \* position of process_urls_from_csv / the main block
    urls,        \* the list built at line 117
    valid_urls,  \* the list built at lines 119-122
    results,     \* the list returned by process_urls_from_csv
    tasks,       \* one record per fetch_url_with_limit coroutine given to gather
    sem,         \* the value of asyncio.Semaphore(CONCURRENCY_LIMIT)
    waiters,     \* the semaphore's FIFO queue of suspended acquirers
    out          \* the rows handed to csv.writer, header first

vars == <<csvfile, stub, pc, urls, valid_urls, results, tasks, sem, waiters, out>>

-----------------------------------------------------------------------------
(* Configuration, lines 9-12.                                              *)

\* The number of permits.  The program sets 10; the model runs with a small
\* pool so that more URLs than permits fit in the state space.
CONCURRENCY_LIMIT == 2

MAX_RETRIES == 3

RETRY_STATUS_CODES == {429, 503}

\* The largest number of data rows of an input file.
MaxRows == 3

-----------------------------------------------------------------------------
(* Values.  A status is an int or a str in the program; the two are kept   *)
(* apart by a tag so that they can be compared.                            *)

Num(n) == <<"int", n>>
Str(s) == <<"str", s>>

None == Str("None")

HttpStatus(c) == [kind |-> "status", code |-> c, type |-> "", msg |-> ""]
Raise(t, m, c) == [kind |-> "exc", code |-> c, type |-> t, msg |-> m]

S200 == HttpStatus(200)
S404 == HttpStatus(404)
S429 == HttpStatus(429)
S503 == HttpStatus(503)
CertError == Raise("ClientConnectorCertificateError", "certificate verify failed", 0)
ResponseError == Raise("ClientResponseError", "400, message='Bad Request'", 400)
ConnectorError == Raise("ClientConnectorError", "Cannot connect to host", 0)
PayloadError == Raise("ClientPayloadError", "Response payload is not completed", 0)
TimeoutError == Raise("TimeoutError", "", 0)
DisconnectedError == Raise("ServerDisconnectedError", "Server disconnected", 0)

AllResponses ==
    {S200, S404, S429, S503, CertError, ResponseError, ConnectorError,
     PayloadError, TimeoutError, DisconnectedError}

-----------------------------------------------------------------------------
(* str.strip() and urllib.parse.urlparse().                                *)

WHITESPACE == {" "}

RECURSIVE lstrip(_)
lstrip(s) ==
    IF s # <<>> /\ Head(s) \in WHITESPACE THEN lstrip(Tail(s)) ELSE s

RECURSIVE rstrip(_)
rstrip(s) ==
    IF s # <<>> /\ s[Len(s)] \in WHITESPACE
    THEN rstrip(SubSeq(s, 1, Len(s) - 1))
    ELSE s

strip(s) == rstrip(lstrip(s))

LETTERS == {"h", "x", "z", "H"}
SCHEME_CHARS == LETTERS \cup {"1", "+", "-", "."}

lower(c) == IF c = "H" THEN "h" ELSE c

\* str.find for one character: the first index (from 1) at or after `from`,
\* 0 when there is none.
RECURSIVE find(_, _, _)
find(s, cs, from) ==
    IF from > Len(s) THEN 0
    ELSE IF s[from] \in cs THEN from
    ELSE find(s, cs, from + 1)

\* urlsplit: the scheme is what precedes the first ":" when it starts with a
\* letter and holds scheme characters only; the netloc is what follows "//"
\* up to the next "/", "?" or "#"; a netloc with one bracket of a pair raises
\* ValueError("Invalid IPv6 URL").
urlparse(url) ==
    LET i == find(url, {":"}, 1)
        hasScheme ==
            /\ i > 1
            /\ url[1] \in LETTERS
            /\ \A k \in 1..(i - 1) : url[k] \in SCHEME_CHARS
        scheme ==
            IF hasScheme THEN [k \in 1..(i - 1) |-> lower(url[k])] ELSE <<>>
        rest == IF hasScheme THEN SubSeq(url, i + 1, Len(url)) ELSE url
        hasNetloc == Len(rest) >= 2 /\ rest[1] = "/" /\ rest[2] = "/"
        delim == find(rest, {"/", "?", "#"}, 3)
        netloc ==
            IF ~hasNetloc THEN <<>>
            ELSE IF delim = 0 THEN SubSeq(rest, 3, Len(rest))
            ELSE SubSeq(rest, 3, delim - 1)
        open == find(netloc, {"["}, 1) # 0
        close == find(netloc, {"]"}, 1) # 0
    IN  [scheme |-> scheme, netloc |-> netloc, error |-> open # close]

check_valid_url(url) ==
    LET parsed == urlparse(url)
    IN  parsed.netloc # <<>> /\ parsed.scheme # <<>>

\* urlparse raises ValueError, which check_valid_url does not catch.
check_valid_url_raises(url) == urlparse(url).error

-----------------------------------------------------------------------------
(* The input files.                                                        *)

HeaderRow == << <<"U">> >>
BlankRow == <<>>
EmptyFieldRow == << <<>>, <<"x">> >>
SpaceRow == << <<" ", " ">> >>
NoSchemeRow == << <<"x">> >>
ValidRow == << <<" ", "h", ":", "/", "/", "x", " ">>, <<"z">> >>
BracketRow == << <<"/", "/", "[">> >>
OtherValidRow == << <<"h", ":", "/", "/", "z">> >>

RunRows == {BlankRow, SpaceRow, NoSchemeRow, ValidRow, BracketRow}

UrlRows ==
    { << u >> : u \in
        { <<"h", ":", "x">>,
          <<"/", "/", "x">>,
          <<"h", ":", "/", "/">>,
          <<"h", ":", "/", "/", "/", "x">>,
          <<"1", "h", ":", "/", "/", "x">>,
          <<"H", "+", "1", ":", "/", "/", "x", ".", "z", "/", "x">>,
          <<"h", ":", "/", "/", "x", "]">>,
          <<"h", ":", "/", "/", "x", "/", "[">>,
          <<"x", " ", "x">>,
          <<"h", ":", "/", "/", "x", "/", ",", "\"">> } }
    \cup {EmptyFieldRow}

RECURSIVE SeqsUpTo(_, _)
SeqsUpTo(S, n) ==
    IF n = 0 THEN {<<>>}
    ELSE LET shorter == SeqsUpTo(S, n - 1)
         IN  shorter \cup
             {Append(q, x) : q \in {p \in shorter : Len(p) = n - 1}, x \in S}

\* A stub server: the answers it can give to a request that validates the
\* certificate (ssl=True) and to one that does not (ssl=False).
Server(verified, unverified) == [verified |-> verified, unverified |-> unverified]

\* Any answer to any request; a request sent with ssl=False does not
\* validate the certificate, so it meets no certificate error.
AnyServer == Server(AllResponses, AllResponses \ {CertError})

\* The servers of a run with several rows: one that answers 200 or 503, one
\* with an invalid certificate that answers 404, and one with an invalid
\* certificate that drops the connection of the second request.
RunStubs ==
    {Server({S200, S503}, {S200}),
     Server({CertError}, {S404}),
     Server({CertError}, {ConnectorError})}

-----------------------------------------------------------------------------
(* process_urls_from_csv, lines 104-128: reading and validating.           *)

\* The filter of the comprehension at line 117.
KeepRow(row) == row # <<>> /\ strip(row[1]) # <<>>

\* The comprehension that keeps the field as it was read.
RECURSIVE ReadUrls_NoStrip(_)
ReadUrls_NoStrip(rows) ==
    IF rows = <<>> THEN <<>>
    ELSE IF KeepRow(Head(rows))
         THEN <<Head(rows)[1]>> \o ReadUrls_NoStrip(Tail(rows))
         ELSE ReadUrls_NoStrip(Tail(rows))

\* urls = [row[0].strip() for row in reader if row and row[0].strip()]
RECURSIVE ReadUrls(_)
ReadUrls(rows) ==
    IF rows = <<>> THEN <<>>
    ELSE IF KeepRow(Head(rows))
         THEN <<strip(Head(rows)[1])>> \o ReadUrls(Tail(rows))
         ELSE ReadUrls(Tail(rows))

InvalidResult(url) ==
    [URL |-> url,
     Status |-> Str("Invalid"),
     Error |-> IF url # <<>> THEN "Invalid URL format" ELSE "Empty URL"]

\* The loop of lines 119-128 from position i on; raised when urlparse raises.
RECURSIVE Partition(_, _, _, _)
Partition(us, i, valid, res) ==
    IF i > Len(us) THEN [valid |-> valid, results |-> res, raised |-> FALSE]
    ELSE IF check_valid_url_raises(us[i])
         THEN [valid |-> valid, results |-> res, raised |-> TRUE]
    ELSE IF check_valid_url(us[i])
         THEN Partition(us, i + 1, Append(valid, us[i]), res)
         ELSE Partition(us, i + 1, valid, Append(res, InvalidResult(us[i])))

-----------------------------------------------------------------------------
(* fetch_with_retry, lines 31-92.                                          *)

NoResult == [URL |-> <<>>, Status |-> None, Error |-> ""]

\* A coroutine fetch_url_with_limit(sem, session, url) before its first step,
\* with the locals of fetch_with_retry as lines 37-39 set them.
NewTask(url) ==
    [url |-> url,
     st |-> "pending",
     ssl |-> TRUE,
     attempt |-> 0,
     last_status_code |-> None,
     last_error_type |-> "UnknownError",
     last_error_message |-> "",
     result |-> NoResult,
     log |-> <<>>]

\* A retry test that forgets 429.
IsRetryStatus_Only503(code) == code = 503

\* line 48 and line 60
IsRetryStatus(code) == code \in RETRY_STATUS_CODES

\* The clause of the inner try that catches exception e (line 55).
IsCertificateError(e) == e.type = "ClientConnectorCertificateError"

\* ClientConnectorCertificateError derives from ClientConnectorError.
IsConnectorError(e) ==
    e.type \in {"ClientConnectorError", "ClientConnectorCertificateError"}

\* The fallback request placed outside the outer try.
IsCaught_FirstRequestOnly(ssl, e) == ssl

\* Both requests (line 45, and line 58 inside the inner handler) are within
\* the outer try, whose last clause is "except Exception".
IsCaught(ssl, e) == e.kind = "exc"

\* The except clauses of lines 67-81, in order.
Classify(e) ==
    IF e.type = "ClientResponseError"
    THEN [type |-> "ClientResponseError (" \o ToString(e.code) \o ")", message |-> e.msg]
    ELSE IF IsConnectorError(e)
    THEN [type |-> "ClientConnectorError", message |-> e.msg]
    ELSE IF e.type = "ClientPayloadError"
    THEN [type |-> "ClientPayloadError", message |-> e.msg]
    ELSE IF e.type = "TimeoutError"
    THEN [type |-> "TimeoutError", message |-> "The request timed out"]
    ELSE [type |-> e.type, message |-> e.msg]

\* The fallback success reported like a clean success.
SuccessResult_NoMarker(url, code, ssl) ==
    [URL |-> url, Status |-> Num(code), Error |-> ""]

\* line 54 (ssl=True) and line 65 (ssl=False)
SuccessResult(url, code, ssl) ==
    [URL |-> url,
     Status |-> Num(code),
     Error |-> IF ssl THEN "" ELSE "SSL certificate verification disabled"]

\* "Status": last_status_code if last_status_code else "ERROR", line 90
ExhaustedStatus(last_status_code) ==
    IF last_status_code # None THEN last_status_code ELSE Str("ERROR")

\* lines 88-92
ExhaustedResult(t) ==
    [URL |-> t.url,
     Status |-> ExhaustedStatus(t.last_status_code),
     Error |-> t.last_error_type \o ": " \o t.last_error_message]

\* A loop that runs one iteration more.
HasNextAttempt_OneMore(attempt) == attempt <= MAX_RETRIES

\* for attempt in range(1, MAX_RETRIES + 1): is there another iteration
HasNextAttempt(attempt) == attempt < MAX_RETRIES

\* session.get(..., ssl=True, ...) of the next loop iteration, line 45
IssueRequest(t) ==
    [t EXCEPT !.st = "get", !.ssl = TRUE, !.attempt = t.attempt + 1]

\* The request that was answered: session.get(url, ssl=..., ...) of line 45
\* or line 58, with the attempt it belongs to and its answer.
Logged(t, r) ==
    Append(t.log, [url |-> t.url, attempt |-> t.attempt, ssl |-> t.ssl, resp |-> r])

\* The answers the network can give to a request.
Answers(ssl) == IF ssl THEN stub.verified ELSE stub.unverified

\* A retry on a retryable status that goes on to the next iteration without
\* awaiting asyncio.sleep.
HandleResponse_NoDelay(t, r) ==
    LET t1 == [t EXCEPT !.log = Logged(t, r)]
    IN  IF r.kind = "status"
        THEN LET t2 == [t1 EXCEPT !.last_status_code = Num(r.code)]
             IN  IF IsRetryStatus(r.code)
                 THEN IF HasNextAttempt(t2.attempt)
                      THEN IssueRequest(t2)
                      ELSE [t2 EXCEPT !.st = "done", !.result = ExhaustedResult(t2)]
                 ELSE [t2 EXCEPT !.st = "done",
                                 !.result = SuccessResult(t.url, r.code, t.ssl)]
        ELSE IF t.ssl /\ IsCertificateError(r)
        THEN [t1 EXCEPT !.ssl = FALSE]
        ELSE IF IsCaught(t.ssl, r)
        THEN [t1 EXCEPT !.st = "sleep",
                        !.last_error_type = Classify(r).type,
                        !.last_error_message = Classify(r).message]
        ELSE [t1 EXCEPT !.st = "raised"]

\* What fetch_with_retry does with the answer r to the request in flight, up
\* to its next await or its return.
HandleResponse(t, r) ==
    LET t1 == [t EXCEPT !.log = Logged(t, r)]
    IN  IF r.kind = "status"
        THEN LET t2 == [t1 EXCEPT !.last_status_code = Num(r.code)]
             IN  IF IsRetryStatus(r.code)
                 THEN [t2 EXCEPT !.st = "sleep"]
                 ELSE [t2 EXCEPT !.st = "done",
                                 !.result = SuccessResult(t.url, r.code, t.ssl)]
        ELSE IF t.ssl /\ IsCertificateError(r)
        THEN [t1 EXCEPT !.ssl = FALSE]
        ELSE IF IsCaught(t.ssl, r)
        THEN [t1 EXCEPT !.st = "sleep",
                        !.last_error_type = Classify(r).type,
                        !.last_error_message = Classify(r).message]
        ELSE [t1 EXCEPT !.st = "raised"]

\* What fetch_with_retry does when asyncio.sleep(RETRY_DELAY) returns
\* (line 50, 62 or 85): the next iteration, or lines 88-92.
AfterSleep(t) ==
    IF HasNextAttempt(t.attempt)
    THEN IssueRequest(t)
    ELSE [t EXCEPT !.st = "done", !.result = ExhaustedResult(t)]

-----------------------------------------------------------------------------
(* asyncio.Semaphore, used by fetch_url_with_limit at line 100.            *)

\* An acquire that never waits.
Locked_Never == FALSE

Locked == sem = 0 \/ waiters # <<>>

\* A _wake_up_next that leaves the future of the waiter unset.
WakeUpNext_NoGrant(ts, v, ws) == [tasks |-> ts, sem |-> v]

\* A _wake_up_next that hands a permit over without taking it from the count.
WakeUpNext_NoDecrement(ts, v, ws) ==
    LET waiting == {i \in 1..Len(ws) : ts[ws[i]].st = "waiting"}
    IN  IF waiting = {}
        THEN [tasks |-> ts, sem |-> v]
        ELSE LET i == CHOOSE j \in waiting : \A k \in waiting : j <= k
             IN  [tasks |-> [ts EXCEPT ![ws[i]].st = "granted"], sem |-> v]

\* _wake_up_next: the first waiter that is not done gets the permit.
WakeUpNext(ts, v, ws) ==
    LET waiting == {i \in 1..Len(ws) : ts[ws[i]].st = "waiting"}
    IN  IF waiting = {}
        THEN [tasks |-> ts, sem |-> v]
        ELSE LET i == CHOOSE j \in waiting : \A k \in waiting : j <= k
             IN  [tasks |-> [ts EXCEPT ![ws[i]].st = "granted"], sem |-> v - 1]

\* A release that wakes nobody.
Release_NoWake(ts, v, ws) == [tasks |-> ts, sem |-> v + 1]

\* release(), run when the body of "async with sem" is left
Release(ts, v, ws) == WakeUpNext(ts, v + 1, ws)

\* last_status_code kept in one module-level variable that every coroutine
\* writes, instead of a local of each call.
Step_SharedLocals(w, t) ==
    LET ts == [v \in 1..Len(tasks) |->
                  IF v = w THEN t
                  ELSE [tasks[v] EXCEPT !.last_status_code = t.last_status_code]]
        after == IF t.st \in {"done", "raised"}
                 THEN Release(ts, sem, waiters)
                 ELSE [tasks |-> ts, sem |-> sem]
    IN  /\ tasks' = after.tasks
        /\ sem' = after.sem

\* The task record t replaces tasks[w]; the permit is released when the
\* coroutine has left fetch_url_with_limit.
Step(w, t) ==
    LET ts == [tasks EXCEPT ![w] = t]
        after == IF t.st \in {"done", "raised"}
                 THEN Release(ts, sem, waiters)
                 ELSE [tasks |-> ts, sem |-> sem]
    IN  /\ tasks' = after.tasks
        /\ sem' = after.sem

Remove(ws, w) == SelectSeq(ws, LAMBDA v : v # w)

\* A wait that ends with the first task (FIRST_COMPLETED).
GatherDone_First(ts) ==
    \E w \in 1..Len(ts) : ts[w].st \in {"done", "raised"}

\* asyncio.gather(*tasks) returns when every task has returned, and raises as
\* soon as one task has raised.
GatherDone(ts) ==
    \/ \E w \in 1..Len(ts) : ts[w].st = "raised"
    \/ \A w \in 1..Len(ts) : ts[w].st = "done"

-----------------------------------------------------------------------------
(* The actions.                                                            *)

Files ==
    {<<>>, <<BlankRow, ValidRow>>, <<HeaderRow, OtherValidRow, NoSchemeRow, ValidRow>>}
    \cup {<<HeaderRow>> \o rows : rows \in SeqsUpTo(RunRows, MaxRows)}

Init ==
    /\ \/ csvfile \in Files /\ stub \in RunStubs
       \/ csvfile = <<HeaderRow, ValidRow>> /\ stub = AnyServer
       \/ csvfile \in {<<HeaderRow, row>> : row \in UrlRows} /\ stub = Server({S200}, {S200})
    /\ pc = "start"
    /\ urls = <<>>
    /\ valid_urls = <<>>
    /\ results = <<>>
    /\ tasks = <<>>
    /\ sem = CONCURRENCY_LIMIT
    /\ waiters = <<>>
    /\ out = <<>>

\* lines 112-117
ReadCsv ==
    /\ pc = "start"
    /\ IF csvfile = <<>> \/ Head(csvfile) = <<>>
       THEN pc' = "fatal" /\ urls' = urls
       ELSE pc' = "validate" /\ urls' = ReadUrls(Tail(csvfile))
    /\ UNCHANGED <<csvfile, stub, valid_urls, results, tasks, sem, waiters, out>>

\* lines 119-128
Validate ==
    /\ pc = "validate"
    /\ LET p == Partition(urls, 1, <<>>, <<>>)
       IN  IF p.raised
           THEN pc' = "fatal" /\ UNCHANGED <<valid_urls, results>>
           ELSE pc' = "gather" /\ valid_urls' = p.valid /\ results' = p.results
    /\ UNCHANGED <<csvfile, stub, urls, tasks, sem, waiters, out>>

\* lines 131-134, up to the await
Gather ==
    /\ pc = "gather"
    /\ sem' = CONCURRENCY_LIMIT
    /\ waiters' = <<>>
    /\ tasks' = [w \in 1..Len(valid_urls) |-> NewTask(valid_urls[w])]
    /\ pc' = "awaiting"
    /\ UNCHANGED <<csvfile, stub, urls, valid_urls, results, out>>

\* The first step of a task, in the order gather created them: "async with
\* sem" takes a permit and line 45 sends the first request, or the task
\* joins the waiters.
StartTask(w) ==
    /\ pc = "awaiting"
    /\ tasks[w].st = "pending"
    /\ \A v \in 1..(w - 1) : tasks[v].st # "pending"
    /\ IF ~Locked
       THEN /\ sem' = sem - 1
            /\ tasks' = [tasks EXCEPT ![w] = IssueRequest(tasks[w])]
            /\ waiters' = waiters
       ELSE /\ sem' = sem
            /\ tasks' = [tasks EXCEPT ![w].st = "waiting"]
            /\ waiters' = Append(waiters, w)
    /\ UNCHANGED <<csvfile, stub, pc, urls, valid_urls, results, out>>

\* The event loop runs the first step of every task gather created before
\* it polls the network or the timers.
AllStarted == \A w \in 1..Len(tasks) : tasks[w].st # "pending"

\* A waiter that was given the permit resumes in acquire() and sends its
\* first request.
Resume(w) ==
    /\ pc = "awaiting"
    /\ tasks[w].st = "granted"
    /\ waiters' = Remove(waiters, w)
    /\ LET ts == [tasks EXCEPT ![w] = IssueRequest(tasks[w])]
           after == IF sem > 0
                    THEN WakeUpNext(ts, sem, waiters')
                    ELSE [tasks |-> ts, sem |-> sem]
       IN  tasks' = after.tasks /\ sem' = after.sem
    /\ UNCHANGED <<csvfile, stub, pc, urls, valid_urls, results, out>>

\* The request in flight is answered: a response or an exception.
Respond(w, r) ==
    /\ pc = "awaiting"
    /\ AllStarted
    /\ tasks[w].st = "get"
    /\ r \in Answers(tasks[w].ssl)
    /\ Step(w, HandleResponse(tasks[w], r))
    /\ UNCHANGED <<csvfile, stub, pc, urls, valid_urls, results, waiters, out>>

\* asyncio.sleep(RETRY_DELAY) returns.
Wake(w) ==
    /\ pc = "awaiting"
    /\ AllStarted
    /\ tasks[w].st = "sleep"
    /\ Step(w, AfterSleep(tasks[w]))
    /\ UNCHANGED <<csvfile, stub, pc, urls, valid_urls, results, waiters, out>>

\* The results listed from the last task to the first.
Gathered_Reversed(ts) == [w \in 1..Len(ts) |-> ts[Len(ts) + 1 - w].result]

\* The list asyncio.gather returns: the result of every awaitable, in the
\* order of its arguments (line 134).
Gathered(ts) == [w \in 1..Len(ts) |-> ts[w].result]

\* lines 134-137
GatherReturn ==
    /\ pc = "awaiting"
    /\ GatherDone(tasks)
    /\ IF \E w \in 1..Len(tasks) : tasks[w].st = "raised"
       THEN pc' = "fatal" /\ results' = results
       ELSE /\ pc' = "returned"
            /\ results' = results \o Gathered(tasks)
    /\ UNCHANGED <<csvfile, stub, urls, valid_urls, tasks, sem, waiters, out>>

\* The row of the earlier script: the status wrapped in parentheses, the URL,
\* and no error field.
OutRow_Wrapped(row) ==
    << Str("(" \o (IF row.Status[1] = "int" THEN ToString(row.Status[2])
                                           ELSE row.Status[2]) \o ")"),
       row.URL >>

\* The list given to writer.writerow at line 148.
OutRow(row) == <<row.Status, row.URL, row.Error>>

\* write_to_csv_file, line 146
WriteHeader ==
    /\ pc = "returned"
    /\ out' = << <<"Status Code or Error", "URL", "Error">> >>
    /\ pc' = "writing"
    /\ UNCHANGED <<csvfile, stub, urls, valid_urls, results, tasks, sem, waiters>>

\* write_to_csv_file, lines 147-148: one iteration
WriteRow ==
    /\ pc = "writing"
    /\ Len(out) <= Len(results)
    /\ LET row == results[Len(out)]
       IN  out' = Append(out, OutRow(row))
    /\ UNCHANGED <<csvfile, stub, pc, urls, valid_urls, results, tasks, sem, waiters>>

\* The loop of write_to_csv_file is over; line 155
Finish ==
    /\ pc = "writing"
    /\ Len(out) > Len(results)
    /\ pc' = "done"
    /\ UNCHANGED <<csvfile, stub, urls, valid_urls, results, tasks, sem, waiters, out>>

TaskStep(w) ==
    \/ StartTask(w)
    \/ Resume(w)
    \/ \E r \in AllResponses : Respond(w, r)
    \/ Wake(w)

Next ==
    \/ ReadCsv
    \/ Validate
    \/ Gather
    \/ \E w \in 1..Len(tasks) : StartTask(w)
    \/ \E w \in 1..Len(tasks) : Resume(w)
    \/ \E w \in 1..Len(tasks), r \in AllResponses : Respond(w, r)
    \/ \E w \in 1..Len(tasks) : Wake(w)
    \/ GatherReturn
    \/ WriteHeader
    \/ WriteRow
    \/ Finish

Spec == Init /\ [][Next]_vars

\* The event loop runs every ready callback, every request is answered (a
\* response, an exception or the timeout) and every sleep ends.
FairSpec ==
    /\ Spec
    /\ WF_vars(ReadCsv \/ Validate \/ Gather \/ GatherReturn)
    /\ WF_vars(WriteHeader \/ WriteRow \/ Finish)
    /\ \A w \in 1..MaxRows : WF_vars(w \in 1..Len(tasks) /\ TaskStep(w))

-----------------------------------------------------------------------------
(* Properties.                                                             *)

Returned == pc \in {"returned", "writing", "done"}

Workers == 1..Len(tasks)

\* The URL of a data row: its first field, trimmed; empty for a blank line.
RowUrl(row) == IF row = <<>> THEN <<>> ELSE strip(row[1])

DataRows == IF csvfile = <<>> THEN <<>> ELSE Tail(csvfile)

\* fetch_with_retry has started and has not returned
InFetch(w) == tasks[w].st \in {"get", "sleep"}

IsRetryableAnswer(e) ==
    e.resp.kind = "status" /\ e.resp.code \in {429, 503}

IsFinalAnswer(e) ==
    e.resp.kind = "status" /\ e.resp.code \notin {429, 503}

IsCertFailure(e) ==
    e.ssl /\ e.resp.kind = "exc" /\ e.resp.type = "ClientConnectorCertificateError"

\* C1: process_urls_from_csv returns exactly one outcome per data row of the
\* input, blank rows and rows with an empty first field included.
C1_OneOutcomePerRow ==
    Returned => Len(results) = Len(DataRows)

\* C2: at every point of a run at most CONCURRENCY_LIMIT invocations of
\* fetch_with_retry have started and not yet returned.
C2_InFlightBounded ==
    Cardinality({w \in Workers : InFetch(w)}) <= CONCURRENCY_LIMIT

\* The pool is exhausted while a task sleeps between retries and another
\* task waits for a permit.
C2_Witness ==
    /\ Cardinality({w \in Workers : InFetch(w)}) = CONCURRENCY_LIMIT
    /\ \E w \in Workers : tasks[w].st = "sleep"
    /\ \E w \in Workers : tasks[w].st = "get" /\ tasks[w].attempt > 1
    /\ \E w \in Workers : tasks[w].st = "waiting"

\* C3: a row whose URL lacks a scheme or a host yields an outcome with Status
\* "Invalid" and is never given to fetch_with_retry; a row is dispatched only
\* if check_valid_url accepted it.
C3_InvalidRowsReported ==
    /\ \A w \in Workers : check_valid_url(tasks[w].url)
    /\ Returned =>
        \A i \in 1..Len(DataRows) :
            LET u == RowUrl(DataRows[i])
                p == urlparse(u)
            IN  (p.scheme = <<>> \/ p.netloc = <<>>) =>
                    /\ \E k \in 1..Len(results) :
                           results[k].URL = u /\ results[k].Status = Str("Invalid")
                    /\ \A w \in Workers : tasks[w].url # u

\* C4: an empty or whitespace-only row yields Status "Invalid" with Error
\* "Empty URL"; a non-empty row that fails validation yields Status "Invalid"
\* with Error "Invalid URL format".
C4_InvalidErrorText ==
    Returned =>
        \A i \in 1..Len(DataRows) :
            LET u == RowUrl(DataRows[i])
            IN  /\ u = <<>> =>
                    \E k \in 1..Len(results) :
                        results[k] = [URL |-> u, Status |-> Str("Invalid"),
                                      Error |-> "Empty URL"]
                /\ (u # <<>> /\ ~check_valid_url(u)) =>
                    \E k \in 1..Len(results) :
                        results[k] = [URL |-> u, Status |-> Str("Invalid"),
                                      Error |-> "Invalid URL format"]

\* C5: when every request is answered with a retryable status (429 or 503),
\* fetch_with_retry makes exactly MAX_RETRIES attempts and returns Status
\* "ERROR"; the last numeric status is not kept.
C5_ExhaustedIsError ==
    \A w \in Workers :
        LET t == tasks[w]
        IN  (t.st = "done" /\ \A i \in 1..Len(t.log) : IsRetryableAnswer(t.log[i])) =>
                /\ Len(t.log) = MAX_RETRIES
                /\ t.attempt = MAX_RETRIES
                /\ t.result.Status = Str("ERROR")

\* C6: after k < MAX_RETRIES retryable answers followed by a non-retryable
\* status s, fetch_with_retry has made exactly k+1 attempts and returns
\* Status s with an empty Error; a retryable status is never the outcome
\* while attempts remain.
C6_RetryThenSuccess ==
    \A w \in Workers :
        LET t == tasks[w]
            n == Len(t.log)
        IN  /\ ( /\ t.st = "done"
                 /\ n >= 1
                 /\ \A i \in 1..n : t.log[i].ssl
                 /\ \A i \in 1..(n - 1) : IsRetryableAnswer(t.log[i])
                 /\ IsFinalAnswer(t.log[n]) ) =>
                    /\ n - 1 < MAX_RETRIES
                    /\ t.attempt = n
                    /\ \A i \in 1..n : t.log[i].attempt = i
                    /\ t.result = [URL |-> t.url,
                                   Status |-> Num(t.log[n].resp.code),
                                   Error |-> ""]
            /\ (t.st = "done" /\ t.result.Status \in {Num(429), Num(503)}) =>
                    t.attempt = MAX_RETRIES
            /\ (n >= 1 /\ IsRetryableAnswer(t.log[n]) /\ t.attempt < MAX_RETRIES) =>
                    t.st # "done"

\* 429, 429, 200 gives three attempts and Status 200.
C6_Witness ==
    \E w \in Workers :
        /\ tasks[w].st = "done"
        /\ [i \in 1..Len(tasks[w].log) |-> tasks[w].log[i].resp] = <<S429, S429, S200>>
        /\ tasks[w].attempt = 3
        /\ tasks[w].result.Status = Num(200)

\* C7: a certificate failure of the verify-enabled request is followed by one
\* verify-disabled request within the same attempt, and when that request is
\* answered with a non-retryable status s the outcome is Status s with the
\* certificate-verification-disabled marker in Error.
C7_CertificateFallback ==
    \A w \in Workers :
        LET t == tasks[w]
            n == Len(t.log)
        IN  /\ \A i \in 1..n :
                /\ IsCertFailure(t.log[i]) =>
                      IF i = n
                      THEN t.st = "get" /\ ~t.ssl /\ t.attempt = t.log[i].attempt
                      ELSE ~t.log[i + 1].ssl /\ t.log[i + 1].attempt = t.log[i].attempt
                /\ ~t.log[i].ssl =>
                      i > 1 /\ IsCertFailure(t.log[i - 1])
            /\ \A a \in 1..MAX_RETRIES :
                   Cardinality({i \in 1..n : t.log[i].attempt = a /\ t.log[i].ssl}) <= 1
            /\ (t.st = "done" /\ n >= 2 /\ ~t.log[n].ssl /\ IsFinalAnswer(t.log[n])) =>
                   /\ t.attempt = t.log[n].attempt
                   /\ t.result = [URL |-> t.url,
                                  Status |-> Num(t.log[n].resp.code),
                                  Error |-> "SSL certificate verification disabled"]

\* One failed verify-enabled request, one verify-disabled request, attempt 1.
C7_Witness ==
    \E w \in Workers :
        /\ tasks[w].st = "done"
        /\ tasks[w].log =
               << [url |-> tasks[w].url, attempt |-> 1, ssl |-> TRUE, resp |-> CertError],
                  [url |-> tasks[w].url, attempt |-> 1, ssl |-> FALSE, resp |-> S404] >>
        /\ tasks[w].result.Status = Num(404)

\* C8: no failure of one URL's check aborts the run: no worker raises, the
\* run fails only before any worker is dispatched, and it returns one
\* outcome for every URL that was read.
C8_FailuresContained ==
    /\ \A w \in Workers : tasks[w].st # "raised"
    /\ pc = "fatal" => tasks = <<>>
    /\ Returned =>
        /\ Len(results) = Len(urls)
        /\ \A w \in Workers :
               /\ tasks[w].st = "done"
               /\ results[Len(results) - Len(tasks) + w] = tasks[w].result
               /\ tasks[w].result.URL = tasks[w].url

\* The run has returned the outcomes of several workers although the
\* fallback request of a worker raised.
C8_Witness ==
    /\ Returned
    /\ Len(tasks) >= 2
    /\ \E w \in Workers :
           /\ tasks[w].result.Status = Str("ERROR")
           /\ \E i \in 1..Len(tasks[w].log) :
                  ~tasks[w].log[i].ssl /\ tasks[w].log[i].resp.kind = "exc"

RunEnded == pc \in {"returned", "fatal"}

\* C9: every fetch_with_retry call ends after at most MAX_RETRIES attempts and
\* the call of process_urls_from_csv ends (it returns, or it raises on an
\* input it rejects before any request).
C9_Terminates ==
    /\ [](\A w \in Workers : tasks[w].attempt <= MAX_RETRIES)
    /\ <>RunEnded

\* A worker that used every attempt, in a run that has returned.
C9_Witness ==
    /\ pc = "returned"
    /\ Len(tasks) > CONCURRENCY_LIMIT
    /\ \E w \in Workers : tasks[w].attempt = MAX_RETRIES /\ Len(tasks[w].log) >= MAX_RETRIES

-----------------------------------------------------------------------------

\* fetch_with_retry run alone, from the state t of one call, on the answers
\* rs to its successive requests.
RECURSIVE Replay(_, _)
Replay(t, rs) ==
    IF t.st = "sleep" THEN Replay(AfterSleep(t), rs)
    ELSE IF t.st = "get" /\ rs # <<>>
         THEN Replay(HandleResponse(t, Head(rs)), Tail(rs))
    ELSE t

Alone(url, rs) == Replay(IssueRequest(NewTask(url)), rs)

\* The answers worker w has received, in order.
AnswersOf(w) == [i \in 1..Len(tasks[w].log) |-> tasks[w].log[i].resp]

\* C11: the outcomes of a run are a function of the input rows and of the
\* answers each URL's own requests received: whatever the interleaving, the
\* outcome of a worker is the one fetch_with_retry gives when it runs alone on
\* the same answers, and the returned outcomes are those of the rejected rows
\* and of the workers; two runs on the same rows and the same answers return
\* the same outcomes.
C11_OutcomeOfOwnAnswers ==
    LET p == Partition(ReadUrls(DataRows), 1, <<>>, <<>>)
    IN  /\ \A w \in Workers :
               tasks[w].st = "done" =>
                   /\ Alone(p.valid[w], AnswersOf(w)).st = "done"
                   /\ Alone(p.valid[w], AnswersOf(w)).result = tasks[w].result
        /\ Returned =>
               results = p.results \o
                   [w \in 1..Len(p.valid) |-> Alone(p.valid[w], AnswersOf(w)).result]

\* A run has returned in which a worker queued for a permit, and two workers
\* of the same URL received different answers and have different outcomes.
C11_Witness ==
    /\ Returned
    /\ Len(tasks) > CONCURRENCY_LIMIT
    /\ \E v, w \in Workers :
           /\ tasks[v].url = tasks[w].url
           /\ AnswersOf(v) # AnswersOf(w)
           /\ tasks[v].result # tasks[w].result
           /\ tasks[v].attempt = MAX_RETRIES

\* The data rows whose trimmed first field is u.
RowsOf(u) == {i \in 1..Len(DataRows) : DataRows[i] # <<>> /\ strip(DataRows[i][1]) = u}

Queued(w) == tasks[w].st \in {"pending", "waiting", "granted"}

\* C13: under fair scheduling every worker gather created starts its check:
\* a worker queued behind the limiter is eventually given a permit and sends
\* its first request, so that from some point on no worker is queued; no
\* worker waits forever.
C13_EveryWaiterStarts ==
    <>[](\A w \in Workers : ~Queued(w) /\ tasks[w].attempt >= 1)

\* A worker created after the permits ran out has its first request in
\* flight while an earlier worker still holds a permit in a retry.
C13_Witness ==
    \E v, w \in Workers :
        /\ w > CONCURRENCY_LIMIT
        /\ tasks[w].st = "get"
        /\ tasks[w].attempt = 1
        /\ tasks[v].st = "sleep"

\* The call of worker w has used every attempt: it returned at lines 88-92.
Exhausted(w) ==
    LET t == tasks[w]
    IN  t.st = "done" /\ t.log # <<>> /\ ~IsFinalAnswer(t.log[Len(t.log)])

\* The requests of worker w that raised into the outer try (a certificate
\* error of the verify-enabled request is handled by the fallback instead).
RaisedAt(w) ==
    {i \in 1..Len(tasks[w].log) :
        tasks[w].log[i].resp.kind = "exc" /\ ~IsCertFailure(tasks[w].log[i])}

LastOf(S) == CHOOSE i \in S : \A j \in S : j <= i

ErrorText(e) == Classify(e).type \o ": " \o Classify(e).message

\* C14: when a call has used every attempt and a request of it raised, the
\* Error of the outcome is the kind and message of the last exception raised
\* and the Status is "ERROR", also when an earlier attempt had received a
\* retryable status.
C14_ExhaustedReportsLastError ==
    \A w \in Workers :
        (Exhausted(w) /\ RaisedAt(w) # {}) =>
            /\ tasks[w].result.Error =
                   ErrorText(tasks[w].log[LastOf(RaisedAt(w))].resp)
            /\ tasks[w].result.Status = Str("ERROR")

IsNumeric(status) == status[1] = "int"

\* C15: an outcome with a numeric Status has an empty Error exactly when the
\* last response of the call answered a request that validated the
\* certificate, and an outcome whose last response answered a request sent
\* with validation disabled carries the verification-disabled marker.
C15_EmptyErrorIffVerified ==
    \A w \in Workers :
        LET t == tasks[w]
            n == Len(t.log)
        IN  (t.st = "done" /\ IsNumeric(t.result.Status)) =>
                /\ t.result.Error = "" <=> t.log[n].ssl
                /\ ~t.log[n].ssl =>
                       t.result.Error = "SSL certificate verification disabled"

\* The requests worker w has sent: one for each attempt it began and one
\* fallback for each certificate failure.
Sent(w) ==
    tasks[w].attempt
        + Cardinality({i \in 1..Len(tasks[w].log) : IsCertFailure(tasks[w].log[i])})

\* The requests of worker w that are not answered yet.
InFlight(w) == Sent(w) - Len(tasks[w].log)

\* C16: within one call the attempts are sequential: at most one request of
\* the call is in flight; the request of attempt N+1 is sent only from the
\* retry delay, which is entered only on the answer to the request of attempt
\* N; an answer arrives only for the request in flight.
C16_AttemptsSequential ==
    /\ [](\A w \in Workers :
             /\ InFlight(w) \in {0, 1}
             /\ InFlight(w) = 1 <=> tasks[w].st = "get")
    /\ [][\A w \in Workers :
             Len(tasks') = Len(tasks) =>
                 LET t == tasks[w]
                     u == tasks'[w]
                 IN  /\ u.attempt # t.attempt =>
                            /\ u.attempt = t.attempt + 1
                            /\ u.st = "get" /\ u.ssl /\ u.log = t.log
                            /\ t.attempt >= 1 =>
                                   /\ t.st = "sleep"
                                   /\ t.log # <<>>
                                   /\ t.log[Len(t.log)].attempt = t.attempt
                     /\ (u.st = "sleep" /\ t.st # "sleep") =>
                            t.st = "get" /\ Len(u.log) = Len(t.log) + 1
                     /\ u.log # t.log =>
                            t.st = "get" /\ u.log = Append(t.log, u.log[Len(u.log)])
       ]_vars

\* The request of the third attempt is in flight after a retryable status of
\* a fallback request and an exception.
C16_Witness ==
    \E w \in Workers :
        /\ tasks[w].st = "get"
        /\ tasks[w].attempt = 3
        /\ \E i, j \in 1..Len(tasks[w].log) :
               /\ ~tasks[w].log[i].ssl /\ IsRetryableAnswer(tasks[w].log[i])
               /\ tasks[w].log[j].resp.kind = "exc" /\ ~IsCertFailure(tasks[w].log[j])

-----------------------------------------------------------------------------
(* The text csv.writer puts in the output file (lines 143-148), and the     *)
(* rows csv.reader gives back for it.  A text is a sequence of pieces: the  *)
(* characters that matter to the csv module each are a piece of their own. *)

DELIMITER == ","
QUOTECHAR == "\""
LINETERMINATOR == <<"\r", "\n">>

\* str(n) of a natural number, digit by digit.
RECURSIVE Decimal(_)
Decimal(n) ==
    IF n < 10 THEN <<ToString(n)>>
    ELSE Decimal(n \div 10) \o <<ToString(n % 10)>>

\* str() of row["Status"]: an int, or the str "ERROR" or "Invalid".
StatusText(status) ==
    IF status[1] = "int" THEN Decimal(status[2]) ELSE <<status[2]>>

\* A str of the program as pieces.  Of the texts of the program only the
\* message of ClientResponseError holds a character that matters to csv.
Text(s) ==
    IF s = "" THEN <<>>
    ELSE IF s = ErrorText(ResponseError)
    THEN <<"ClientResponseError (400): 400", ",", " message='Bad Request'">>
    ELSE <<s>>

\* QUOTE_MINIMAL: a field is quoted when it holds the delimiter, the quote
\* character or a character of the line terminator.
NeedsQuote(f) ==
    \E i \in 1..Len(f) : f[i] \in {DELIMITER, QUOTECHAR, "\r", "\n"}

\* doublequote=True
RECURSIVE Doubled(_)
Doubled(f) ==
    IF f = <<>> THEN <<>>
    ELSE IF Head(f) = QUOTECHAR
         THEN <<QUOTECHAR, QUOTECHAR>> \o Doubled(Tail(f))
         ELSE <<Head(f)>> \o Doubled(Tail(f))

WriteField(f) ==
    IF NeedsQuote(f) THEN <<QUOTECHAR>> \o Doubled(f) \o <<QUOTECHAR>> ELSE f

RECURSIVE Join(_)
Join(fields) ==
    IF fields = <<>> THEN <<>>
    ELSE IF Len(fields) = 1 THEN WriteField(fields[1])
    ELSE WriteField(Head(fields)) \o <<DELIMITER>> \o Join(Tail(fields))

\* writer.writerow(fields), the fields already turned into text
writerow(fields) == Join(fields) \o LINETERMINATOR

\* The text of the fields of the k-th list given to writerow: the header
\* (line 146), or a row of line 148.
RowText(o, k) ==
    IF k = 1
    THEN [j \in 1..Len(o[k]) |-> Text(o[k][j])]
    ELSE [j \in 1..Len(o[k]) |->
             IF j = 1 THEN StatusText(o[k][j])
             ELSE IF j = 2 THEN o[k][j]
             ELSE Text(o[k][j])]

\* The content of the output file after the lists o were written.
RECURSIVE FileText(_, _)
FileText(o, k) ==
    IF k > Len(o) THEN <<>>
    ELSE writerow(RowText(o, k)) \o FileText(o, k + 1)

\* csv.reader on the text, from piece i on, in state st of its parser, with
\* the field and the row it is collecting and the rows it has yielded.
RECURSIVE Parse(_, _, _, _, _, _)
Parse(text, i, st, field, row, rows) ==
    IF i > Len(text)
    THEN IF st \in {"START_RECORD", "EAT_CRNL"} THEN rows
         ELSE Append(rows, Append(row, field))
    ELSE
    LET c == text[i]
        newline == c \in {"\r", "\n"}
        endRow == Parse(text, i + 1, IF c = "\r" THEN "EAT_CRNL" ELSE "START_RECORD",
                        <<>>, <<>>, Append(rows, Append(row, field)))
        endField == Parse(text, i + 1, "START_FIELD", <<>>, Append(row, field), rows)
        add(next) == Parse(text, i + 1, next, Append(field, c), row, rows)
    IN  CASE st = "EAT_CRNL" ->
                 IF c = "\n" THEN Parse(text, i + 1, "START_RECORD", field, row, rows)
                 ELSE Parse(text, i, "START_RECORD", field, row, rows)
          [] st = "START_RECORD" ->
                 IF newline
                 THEN Parse(text, i + 1, IF c = "\r" THEN "EAT_CRNL" ELSE "START_RECORD",
                            <<>>, <<>>, Append(rows, <<>>))
                 ELSE Parse(text, i, "START_FIELD", field, row, rows)
          [] st = "START_FIELD" ->
                 IF newline THEN endRow
                 ELSE IF c = QUOTECHAR
                 THEN Parse(text, i + 1, "IN_QUOTED_FIELD", field, row, rows)
                 ELSE IF c = DELIMITER THEN endField
                 ELSE add("IN_FIELD")
          [] st = "IN_FIELD" ->
                 IF newline THEN endRow
                 ELSE IF c = DELIMITER THEN endField
                 ELSE add("IN_FIELD")
          [] st = "IN_QUOTED_FIELD" ->
                 IF c = QUOTECHAR
                 THEN Parse(text, i + 1, "QUOTE_IN_QUOTED_FIELD", field, row, rows)
                 ELSE add("IN_QUOTED_FIELD")
          [] st = "QUOTE_IN_QUOTED_FIELD" ->
                 IF c = QUOTECHAR THEN add("IN_QUOTED_FIELD")
                 ELSE IF c = DELIMITER THEN endField
                 ELSE IF newline THEN endRow
                 ELSE add("IN_FIELD")

\* list(csv.reader(f)) of a file with the given text
ParseCsv(text) == Parse(text, 1, "START_RECORD", <<>>, <<>>, <<>>)

HeaderText == <<Text("Status Code or Error"), Text("URL"), Text("Error")>>

\* The three values of an outcome, as text.
OutcomeText(r) == <<StatusText(r.Status), r.URL, Text(r.Error)>>

-----------------------------------------------------------------------------

\* Worker w is inside "async with sem": it was given a permit and has not
\* left fetch_url_with_limit.
HoldsPermit(w) == tasks[w].st \in {"granted", "get", "sleep"}

\* C18: permits are conserved: the free permits and the workers holding one
\* add up to CONCURRENCY_LIMIT and the free count stays within 0 and the
\* limit; a worker holds its permit from its first attempt until its call
\* returns, retry sleeps included, and no longer; when the run has ended all
\* permits are free.
C18_PermitsConserved ==
    /\ sem \in 0..CONCURRENCY_LIMIT
    /\ sem + Cardinality({w \in Workers : HoldsPermit(w)}) = CONCURRENCY_LIMIT
    /\ \A w \in Workers :
           /\ (tasks[w].attempt >= 1 /\ tasks[w].st \notin {"done", "raised"})
                  => HoldsPermit(w)
           /\ tasks[w].st \in {"get", "sleep"} => tasks[w].attempt >= 1
           /\ tasks[w].st \in {"pending", "waiting"} => tasks[w].attempt = 0
    /\ (Returned \/ pc = "fatal") =>
           sem = CONCURRENCY_LIMIT /\ \A w \in Workers : ~HoldsPermit(w)

\* A run with more workers than permits has returned; one call left through
\* the exhausted return and another through a success.
C18_Witness ==
    /\ pc = "returned"
    /\ Len(tasks) > CONCURRENCY_LIMIT
    /\ sem = CONCURRENCY_LIMIT
    /\ \E v, w \in Workers :
           Exhausted(v) /\ IsFinalAnswer(tasks[w].log[Len(tasks[w].log)])

\* The URLs read from the input, in input order.
KeptUrls ==
    SelectSeq([i \in 1..Len(DataRows) |-> RowUrl(DataRows[i])], LAMBDA u : u # <<>>)

\* C19: the returned list holds the outcomes of the rejected URLs first, in
\* input order, and then the outcomes of the workers in the input order of
\* the valid URLs, whatever the order in which the workers finished.
C19_ResultOrder ==
    Returned =>
        LET invalid == SelectSeq(KeptUrls, LAMBDA u : ~check_valid_url(u))
            valid == SelectSeq(KeptUrls, check_valid_url)
        IN  /\ [k \in 1..Len(results) |-> results[k].URL] = invalid \o valid
            /\ \A k \in 1..Len(invalid) : results[k].Status = Str("Invalid")
            /\ Len(tasks) = Len(valid)
            /\ \A w \in 1..Len(valid) :
                   /\ tasks[w].url = valid[w]
                   /\ results[Len(invalid) + w] = tasks[w].result
                   /\ results[Len(invalid) + w].Status # Str("Invalid")

\* A rejected row stands between two valid rows of different URLs, and the
\* first worker needed three attempts while the second needed one.
C19_Witness ==
    /\ Returned
    /\ Len(DataRows) = 3
    /\ check_valid_url(RowUrl(DataRows[1]))
    /\ ~check_valid_url(RowUrl(DataRows[2]))
    /\ check_valid_url(RowUrl(DataRows[3]))
    /\ RowUrl(DataRows[1]) # RowUrl(DataRows[3])
    /\ tasks[1].attempt = 3
    /\ tasks[2].attempt = 1
    /\ tasks[1].result # tasks[2].result

\* The requests of attempt a that worker w has sent with the given ssl
\* argument, answered or in flight.
SentWith(w, a, ssl) ==
    Cardinality({i \in 1..Len(tasks[w].log) :
                    tasks[w].log[i].attempt = a /\ tasks[w].log[i].ssl = ssl})
        + (IF tasks[w].st = "get" /\ tasks[w].attempt = a /\ tasks[w].ssl = ssl
           THEN 1 ELSE 0)

\* C20: one call of fetch_with_retry sends at most 2 * MAX_RETRIES requests:
\* each attempt it begins sends exactly one request with verification enabled,
\* first, and at most one with verification disabled, and a request with
\* verification disabled directly follows a certificate failure of the
\* verify-enabled request of the same attempt.
C20_RequestBudget ==
    \A w \in Workers :
        LET t == tasks[w]
            n == Len(t.log)
        IN  /\ Sent(w) <= 2 * MAX_RETRIES
            /\ t.attempt <= MAX_RETRIES
            /\ \A i \in 1..n : t.log[i].attempt \in 1..t.attempt
            /\ \A a \in 1..t.attempt :
                   /\ SentWith(w, a, TRUE) = 1
                   /\ SentWith(w, a, FALSE) <= 1
            /\ \A i \in 1..n :
                   IF i = 1 \/ t.log[i - 1].attempt # t.log[i].attempt
                   THEN t.log[i].ssl
                   ELSE ~t.log[i].ssl /\ IsCertFailure(t.log[i - 1])
            /\ (t.st = "get" /\ ~t.ssl) =>
                   n >= 1 /\ IsCertFailure(t.log[n]) /\ t.log[n].attempt = t.attempt
            /\ (t.st = "get" /\ t.ssl) =>
                   n = 0 \/ t.log[n].attempt < t.attempt

\* A call has returned after 2 * MAX_RETRIES requests.
C20_Witness ==
    \E w \in Workers :
        /\ tasks[w].st = "done"
        /\ Sent(w) = 2 * MAX_RETRIES
        /\ Len(tasks[w].log) = 2 * MAX_RETRIES

====
